---- MODULE Spec2Model ----
(***************************************************************************)
(* Terraria biome seed finder: the seed -> layout generator and the        *)
(* adjacency search loop, in both source variants                          *)
(*   impl = "finder"       src/files/terraria_seed_finder.py                *)
(*   impl = "interactive"  src/files/terraria_seed_finder_interactive.py    *)
(***************************************************************************)
EXTENDS Integers, Sequences, FiniteSets, TLC

VARIABLES
    impl,        \* which of the two programs runs
    hashseed,    \* the interpreter's per-process string-hash salt
    req,         \* the (seed, size) a caller asks a generator for
    generator,   \* the generator object: seed, size, random
    world,       \* the WorldConfig last produced (or a layout under test)
    fresh,       \* world is the first layout of a newly built generator
    first,       \* the first layout obtained for req
    answer,      \* the label pairs has_adjacent_biomes was true for on world
    pc,          \* position of the search: idle, loop, done
    params,      \* arguments of the running search
    found,       \* local accumulator of the search
    attempts,    \* local attempt counter of the search
    found_seeds, \* SeedFinder.found_seeds / InteractiveSeedFinder.results
    saved        \* the record list save_results wrote, if it was called

vars == <<impl, hashseed, req, generator, world, fresh, first, answer,
          pc, params, found, attempts, found_seeds, saved>>

searchVars == <<pc, params, found, attempts, found_seeds, saved>>

----------------------------------------------------------------------------
(* Bounds of the model *)

MaxSeedInt    == 400  \* integer seed tokens 0..MaxSeedInt
MaxSeedLen    == 2    \* string seed tokens of at most this many characters
MaxHashSeed   == 1    \* hash salts 0..MaxHashSeed
RandintSpan   == 4    \* the search draws RandintLo..RandintLo+RandintSpan-1
MaxNumSeeds   == 2    \* num_seeds ranges over MinCount..MaxNumSeeds
MaxMaxAttempts == 3   \* max_attempts ranges over MinCount..MaxMaxAttempts
MaxConstraints == 2   \* adjacency lists of at most this many pairs
MaxLayoutLen  == 3    \* hand-built layouts of at most this many pairs
MaxLayoutPos  == 2    \* hand-built layouts use positions 0..MaxLayoutPos
RandomSteps   == 10   \* random() yields k / RandomSteps, k in 0..RandomSteps-1

MinCount == 0 - 1

----------------------------------------------------------------------------
(* Biome labels *)

FOREST     == "Forest"
DESERT     == "Desert"
SNOW       == "Snow"
JUNGLE     == "Jungle"
CORRUPTION == "Corruption"
CRIMSON    == "Crimson"
OCEAN      == "Ocean"
DUNGEON    == "Dungeon"
MUSHROOM   == "Mushroom"

Biome(i) ==
    IF i = "finder"
    THEN {FOREST, DESERT, SNOW, JUNGLE, CORRUPTION, CRIMSON, OCEAN, DUNGEON, MUSHROOM}
    ELSE {FOREST, DESERT, SNOW, JUNGLE, CORRUPTION, CRIMSON, MUSHROOM}

Impls == {"finder", "interactive"}
Sizes == {"small", "medium", "large"}
SizeInputs == Sizes \cup {"Large"}

----------------------------------------------------------------------------
(* Seed tokens: None, an int, or a str (a sequence of characters) *)

DigitChars == <<"0", "1", "2", "3", "4", "5", "6", "7", "8", "9">>
SeedChars  == {"0", "7", "a"}

NoneTok    == [t |-> "none", n |-> 0, s |-> <<>>]
IntTok(n)  == [t |-> "int", n |-> n, s |-> <<>>]
StrTok(s)  == [t |-> "str", n |-> 0, s |-> s]

StringsUpTo(k) == UNION {[1..m -> SeedChars] : m \in 0..k}

SeedTokens ==
    {NoneTok} \cup {IntTok(n) : n \in 0..MaxSeedInt}
              \cup {StrTok(s) : s \in StringsUpTo(MaxSeedLen)}

\* Python truth value of a seed argument
Truthy(tok) ==
    CASE tok.t = "none" -> FALSE
      [] tok.t = "int"  -> tok.n # 0
      [] tok.t = "str"  -> tok.s # <<>>

IsDigitChar(c) == \E d \in 1..10 : DigitChars[d] = c
DigitVal(c) == (CHOOSE d \in 1..10 : DigitChars[d] = c) - 1

\* str(n) for n >= 0
RECURSIVE Str(_)
Str(n) == IF n < 10 THEN <<DigitChars[n + 1]>>
          ELSE Append(Str(n \div 10), DigitChars[(n % 10) + 1])

\* s.isdigit()
IsDigit(s) == s # <<>> /\ \A i \in 1..Len(s) : IsDigitChar(s[i])

\* int(s) for a digit string
RECURSIVE ParseInt(_)
ParseInt(s) ==
    IF s = <<>> THEN 0
    ELSE ParseInt(SubSeq(s, 1, Len(s) - 1)) * 10 + DigitVal(s[Len(s)])

Lower(size) == IF size = "Large" THEN "large" ELSE size

Abs(x) == IF x < 0 THEN 0 - x ELSE x

----------------------------------------------------------------------------
(* random.Random: a deterministic stream fixed by the seeding value.       *)
(* The generator state is a number below PrngModulus, one state for every  *)
(* outcome of the draws a layout takes (choice of 2, shuffle of 5, one     *)
(* random()); seeding scrambles the key into it, and each draw below n     *)
(* takes state % n and leaves state \div n, so that distinct states give   *)
(* distinct draw sequences.                                                *)

PrngModulus == 2 * 5 * 4 * 3 * 2 * RandomSteps

CharCode(c) == IF IsDigitChar(c) THEN DigitVal(c) + 1 ELSE 11

\* the digest of a str, the same in every process
RECURSIVE StrKey(_)
StrKey(s) ==
    IF s = <<>> THEN 7
    ELSE (StrKey(SubSeq(s, 1, Len(s) - 1)) * 13 + CharCode(s[Len(s)])) % PrngModulus

\* hash(s): salted per process, hash("") = 0
Hash(s, salt) == IF s = <<>> THEN 0 ELSE 0 - (StrKey(s) + 31 * salt + 1)

\* random.Random(key) for an int key
SeedRandom(key) == ((Abs(key) % PrngModulus) * 1117 + 389) % PrngModulus

\* random.Random(x) for a str or int x
RandomOf(tok) ==
    IF tok.t = "int" THEN SeedRandom(tok.n) ELSE SeedRandom(StrKey(tok.s))

\* _randbelow(n): <<value, next state>>
RandBelow(st, n) == <<st % n, st \div n>>

\* random.choice(seq): <<element, next state>>
Choice(st, seq) ==
    LET d == RandBelow(st, Len(seq)) IN <<seq[d[1] + 1], d[2]>>

Swap(x, i, j) == [x EXCEPT ![i] = x[j], ![j] = x[i]]

\* random.shuffle(x): for i in reversed(range(1, len(x))): j = randbelow(i+1)
RECURSIVE ShuffleFrom(_, _, _)
ShuffleFrom(st, x, i) ==
    IF i < 2 THEN <<x, st>>
    ELSE LET d == RandBelow(st, i)
         IN  ShuffleFrom(d[2], Swap(x, i, d[1] + 1), i - 1)

Shuffle(st, x) == ShuffleFrom(st, x, Len(x))

\* random.random(), in units of 1 / RandomSteps: <<value, next state>>
RandomDraw(st) == RandBelow(st, RandomSteps)

\* random.randint(1000000000, 9999999999) of the global, unseeded source
RandintLo == 1000000000
RandintRange == RandintLo..(RandintLo + RandintSpan - 1)

----------------------------------------------------------------------------
(* WorldConfig *)

NoWorld == [seed |-> NoneTok, size |-> "", evil |-> "", biomes |-> <<>>]
\* st: "none" before construction, "raised" when __init__ raised,
\* "ready" once built, "used" after a layout was drawn from it
NoGen   == [st |-> "none", seed |-> NoneTok, size |-> "", random |-> 0]

Labels(w)    == {w.biomes[i][1] : i \in 1..Len(w.biomes)}
PositionsOf(w) == {w.biomes[i][2] : i \in 1..Len(w.biomes)}

\* positions = {biome: pos for biome, pos in self.biomes}: the last pair wins
Positions(w) ==
    [b \in Labels(w) |->
        LET last == CHOOSE i \in 1..Len(w.biomes) :
                        /\ w.biomes[i][1] = b
                        /\ \A j \in (i + 1)..Len(w.biomes) : w.biomes[j][1] # b
        IN  w.biomes[last][2]]

\* variant: the difference is taken without abs()
has_adjacent_biomes_directed(w, biome1, biome2) ==
    LET positions == Positions(w) IN
    IF biome1 \notin DOMAIN positions \/ biome2 \notin DOMAIN positions
    THEN FALSE
    ELSE positions[biome1] - positions[biome2] = 1

has_adjacent_biomes(w, biome1, biome2) ==
    LET positions == Positions(w) IN
    IF biome1 \notin DOMAIN positions \/ biome2 \notin DOMAIN positions
    THEN FALSE
    ELSE Abs(positions[biome1] - positions[biome2]) = 1

\* biomes.sort(key=lambda x: x[1]): a stable sort by position
RECURSIVE InsertByPos(_, _)
InsertByPos(sorted, p) ==
    IF sorted = <<>> THEN <<p>>
    ELSE IF sorted[Len(sorted)][2] <= p[2] THEN Append(sorted, p)
    ELSE Append(InsertByPos(SubSeq(sorted, 1, Len(sorted) - 1), p),
                sorted[Len(sorted)])

RECURSIVE SortByPos(_)
SortByPos(s) ==
    IF s = <<>> THEN <<>>
    ELSE InsertByPos(SortByPos(SubSeq(s, 1, Len(s) - 1)), s[Len(s)])

Min(a, b) == IF a < b THEN a ELSE b

\* core_biomes[:k] paired with positions base, base+1, ...
Place(core, k, base) ==
    [i \in 1..Min(k, Len(core)) |-> <<core[i], base + i - 1>>]

----------------------------------------------------------------------------
(* TerrariaWorldGenerator.generate_world: <<WorldConfig, next random state>> *)

NumBiomes(size) ==
    IF size = "small" THEN 5 ELSE IF size = "medium" THEN 7 ELSE 9

generate_world(g) ==
    LET num_biomes == NumBiomes(g.size)
        c     == Choice(g.random, <<CORRUPTION, CRIMSON>>)
        evil  == c[1]
        sh    == Shuffle(c[2], <<FOREST, DESERT, SNOW, JUNGLE, evil>>)
        b1    == <<<<OCEAN, 0>>>> \o Place(sh[1], num_biomes - 2, 1)
        r     == RandomDraw(sh[2])
        b2    == IF num_biomes > 7 /\ r[1] * 10 > 5 * RandomSteps
                 THEN Append(b1, <<MUSHROOM, num_biomes - 2>>) ELSE b1
        after == IF num_biomes > 7 THEN r[2] ELSE sh[2]
        b3    == Append(b2, <<OCEAN, num_biomes - 1>>)
    IN  <<[seed |-> g.seed, size |-> g.size, evil |-> evil,
           biomes |-> SortByPos(b3)], after>>

(* WorldGenerator.generate: <<WorldConfig, next random state>> *)

NumSlots(size) ==
    IF size = "small" THEN 5 ELSE IF size = "large" THEN 9 ELSE 7

generate(g) ==
    LET num_slots == NumSlots(g.size)
        c     == Choice(g.random, <<CORRUPTION, CRIMSON>>)
        evil  == c[1]
        sh    == Shuffle(c[2], <<FOREST, DESERT, SNOW, JUNGLE, evil>>)
        b1    == Place(sh[1], num_slots, 0)
        r     == RandomDraw(sh[2])
        b2    == IF num_slots > 7 /\ r[1] * 10 > 6 * RandomSteps
                 THEN Append(b1, <<MUSHROOM, Len(b1)>>) ELSE b1
        after == IF num_slots > 7 THEN r[2] ELSE sh[2]
    IN  <<[seed |-> g.seed, size |-> g.size, evil |-> evil,
           biomes |-> SortByPos(b2)], after>>

Generate(i, g) == IF i = "finder" THEN generate_world(g) ELSE generate(g)

(* TerrariaWorldGenerator.__init__ with the value rnd drawn from the       *)
(* global source when the seed argument is falsy                           *)
FinderInit(seed, size, rnd) ==
    LET s == IF Truthy(seed) THEN seed ELSE StrTok(Str(rnd))
    IN  [st |-> "ready", seed |-> s, size |-> size, random |-> RandomOf(s)]

(* WorldGenerator.__init__: seed.isdigit() raises on a non-str seed *)
InteractiveInit(seed, size, salt) ==
    IF seed.t # "str"
    THEN [NoGen EXCEPT !.st = "raised"]
    ELSE [st |-> "ready", seed |-> seed, size |-> Lower(size),
          random |-> SeedRandom(IF IsDigit(seed.s) THEN ParseInt(seed.s)
                                ELSE Hash(seed.s, salt))]

----------------------------------------------------------------------------
(* Generator specification: a caller builds generators for one request     *)
(* (seed, size), draws layouts from them and asks adjacency questions.     *)

NotAsked == [asked |-> FALSE, adjacent |-> {}]

NoParams == [adjacent_biomes |-> <<>>, num_seeds |-> 0, size |-> "",
             max_attempts |-> 0]

IdleSearch ==
    /\ pc = "idle"
    /\ params = NoParams
    /\ found = <<>>
    /\ attempts = 0
    /\ found_seeds = <<>>
    /\ saved = [written |-> FALSE, data |-> <<>>]

InitGen ==
    /\ impl \in Impls
    /\ hashseed \in 0..MaxHashSeed
    /\ req \in [seed : SeedTokens, size : SizeInputs]
    /\ generator = NoGen
    /\ world = NoWorld
    /\ fresh = FALSE
    /\ first = NoWorld
    /\ answer = NotAsked
    /\ IdleSearch

\* TerrariaWorldGenerator(seed, size)
NewTerrariaWorldGenerator ==
    /\ impl = "finder"
    /\ \E rnd \in RandintRange :
          generator' = FinderInit(req.seed, req.size, rnd)
    /\ fresh' = FALSE
    /\ UNCHANGED <<impl, hashseed, req, world, first, answer, searchVars>>

\* WorldGenerator(seed, size)
NewWorldGenerator ==
    /\ impl = "interactive"
    /\ generator' = InteractiveInit(req.seed, req.size, hashseed)
    /\ fresh' = FALSE
    /\ UNCHANGED <<impl, hashseed, req, world, first, answer, searchVars>>

\* generator.generate_world() / generator.generate()
GenerateWorld ==
    /\ generator.st \in {"ready", "used"}
    /\ LET res == Generate(impl, generator) IN
         /\ world' = res[1]
         /\ generator' = [generator EXCEPT !.st = "used", !.random = res[2]]
         /\ fresh' = (generator.st = "ready")
         /\ first' = IF generator.st = "ready" /\ first = NoWorld
                     THEN res[1] ELSE first
    /\ answer' = NotAsked
    /\ UNCHANGED <<impl, hashseed, req, searchVars>>

\* world.has_adjacent_biomes(biome1, biome2), asked for every pair of labels
HasAdjacent ==
    /\ world # NoWorld
    /\ ~answer.asked
    /\ answer' = [asked |-> TRUE,
                  adjacent |-> {p \in Biome(impl) \X Biome(impl) :
                                   has_adjacent_biomes(world, p[1], p[2])}]
    /\ UNCHANGED <<impl, hashseed, req, generator, world, fresh, first, searchVars>>

NextGen ==
    \/ NewTerrariaWorldGenerator
    \/ NewWorldGenerator
    \/ GenerateWorld
    \/ HasAdjacent

SpecGen == InitGen /\ [][NextGen]_vars

----------------------------------------------------------------------------
(* Search specification: SeedFinder.find_seeds / InteractiveSeedFinder.    *)
(* _search, called any number of times on one finder object.               *)

ConstraintPairs(i) ==
    {<<DESERT, JUNGLE>>, <<SNOW, FOREST>>, <<MUSHROOM, JUNGLE>>}
        \cup (IF i = "finder" THEN {<<FOREST, OCEAN>>} ELSE {})

ConstraintLists(i) ==
    UNION {[1..k -> ConstraintPairs(i)] : k \in 0..MaxConstraints}

Counts(max) == MinCount..max

\* variant: attempts <= max_attempts
LoopCondInclusive(f, a, p) == Len(f) < p.num_seeds /\ a <= p.max_attempts

\* variant: the budget is cut one attempt short
LoopCondShort(f, a, p) == Len(f) < p.num_seeds /\ a < p.max_attempts - 1

\* while len(found) < num_seeds and attempts < max_attempts
LoopCond(f, a, p) == Len(f) < p.num_seeds /\ a < p.max_attempts

\* variant: only the first pair is tested
MatchesFirst(w, adjacent_biomes) ==
    \A k \in 1..Min(1, Len(adjacent_biomes)) :
        has_adjacent_biomes(w, adjacent_biomes[k][1], adjacent_biomes[k][2])

\* variant: any() in place of all()
MatchesAny(w, adjacent_biomes) ==
    \E k \in 1..Len(adjacent_biomes) :
        has_adjacent_biomes(w, adjacent_biomes[k][1], adjacent_biomes[k][2])

\* all(world.has_adjacent_biomes(b1, b2) for b1, b2 in adjacent_biomes)
Matches(w, adjacent_biomes) ==
    \A k \in 1..Len(adjacent_biomes) :
        has_adjacent_biomes(w, adjacent_biomes[k][1], adjacent_biomes[k][2])

\* the generator the loop builds for the drawn seed
LoopGenerator(i, seed, size, salt) ==
    IF i = "finder" THEN FinderInit(seed, size, RandintLo)
    ELSE InteractiveInit(seed, size, salt)

\* the seeds the loop draws are digit strings, which never reach hash():
\* the salt is not read by any step of the search
InitSearch ==
    /\ impl \in Impls
    /\ hashseed = 0
    /\ req = [seed |-> NoneTok, size |-> ""]
    /\ generator = NoGen
    /\ world = NoWorld
    /\ fresh = FALSE
    /\ first = NoWorld
    /\ answer = NotAsked
    /\ IdleSearch

\* entry of find_seeds / _search: found = [], attempts = 0
FindSeeds ==
    /\ pc = "idle"
    /\ \E adj \in ConstraintLists(impl), n \in Counts(MaxNumSeeds),
          size \in Sizes, m \in Counts(MaxMaxAttempts) :
          params' = [adjacent_biomes |-> adj, num_seeds |-> n, size |-> size,
                     max_attempts |-> m]
    /\ found' = <<>>
    /\ attempts' = 0
    /\ pc' = "loop"
    /\ UNCHANGED <<impl, hashseed, req, generator, world, fresh, first, answer,
                   found_seeds, saved>>

\* one iteration of the while loop
LoopIteration ==
    /\ pc = "loop"
    /\ LoopCond(found, attempts, params)
    /\ attempts' = attempts + 1
    /\ \E rnd \in RandintRange :
          LET seed == StrTok(Str(rnd))
              g    == LoopGenerator(impl, seed, params.size, hashseed)
              res  == Generate(impl, g)
          IN  /\ generator' = [g EXCEPT !.st = "used", !.random = res[2]]
              /\ world' = res[1]
              /\ found' = IF Matches(res[1], params.adjacent_biomes)
                          THEN Append(found, res[1]) ELSE found
    /\ UNCHANGED <<impl, hashseed, req, fresh, first, answer, pc, params,
                   found_seeds, saved>>

\* the loop condition fails: report and return found; the locals
\* generator and world go out of scope
LoopExit ==
    /\ pc = "loop"
    /\ ~LoopCond(found, attempts, params)
    /\ pc' = "done"
    /\ generator' = NoGen
    /\ world' = NoWorld
    /\ UNCHANGED <<impl, hashseed, req, fresh, first, answer,
                   params, found, attempts, found_seeds, saved>>

\* the caller drops the returned list and is ready for the next call
Return ==
    /\ pc = "done"
    /\ pc' = "idle"
    /\ params' = NoParams
    /\ found' = <<>>
    /\ attempts' = 0
    /\ UNCHANGED <<impl, hashseed, req, generator, world, fresh, first, answer,
                   found_seeds, saved>>

\* SeedFinder.save_results: one record per world in self.found_seeds
SaveResults ==
    /\ impl = "finder"
    /\ pc \in {"idle", "done"}
    /\ saved' = [written |-> TRUE,
                 data |-> [k \in 1..Len(found_seeds) |->
                             [seed |-> found_seeds[k].seed,
                              size |-> found_seeds[k].size,
                              evil |-> found_seeds[k].evil,
                              biomes |-> found_seeds[k].biomes]]]
    /\ UNCHANGED <<impl, hashseed, req, generator, world, fresh, first, answer,
                   pc, params, found, attempts, found_seeds>>

NextSearch ==
    \/ FindSeeds
    \/ LoopIteration
    \/ LoopExit
    \/ Return
    \/ SaveResults

SpecSearch == InitSearch /\ [][NextSearch]_vars

\* what every iteration does to the counter, whatever seed it draws
LoopAdvance ==
    /\ pc = "loop"
    /\ LoopCond(found, attempts, params)
    /\ attempts' = attempts + 1

\* the loop is sequential code: a started call keeps iterating while its
\* condition holds and leaves the loop when it fails
FairSearch == SpecSearch /\ WF_attempts(LoopAdvance) /\ WF_pc(LoopExit)

----------------------------------------------------------------------------
(* Adjacency specification: has_adjacent_biomes applied to any WorldConfig, *)
(* generated or built by hand (labels may repeat, positions may collide).   *)

LayoutLabels == {FOREST, DESERT, MUSHROOM}
LayoutPairs  == LayoutLabels \X (0..MaxLayoutPos)
HandLayouts  == UNION {[1..k -> LayoutPairs] : k \in 0..MaxLayoutLen}

GeneratedWorlds(i) ==
    {Generate(i, LoopGenerator(i, StrTok(Str(rnd)), size, 0))[1] :
        rnd \in RandintRange, size \in Sizes}

InitAdj ==
    /\ impl \in Impls
    /\ hashseed = 0
    /\ req = [seed |-> NoneTok, size |-> ""]
    /\ generator = NoGen
    /\ world \in {[NoWorld EXCEPT !.biomes = b] : b \in HandLayouts}
                    \cup GeneratedWorlds(impl)
    /\ fresh = FALSE
    /\ first = NoWorld
    /\ answer = NotAsked
    /\ IdleSearch

NextAdj == HasAdjacent

SpecAdj == InitAdj /\ [][NextAdj]_vars

----------------------------------------------------------------------------
(* Properties *)

\* label a sits at a position that differs by exactly 1 from one of b
NextTo(w, a, b) ==
    \E i, j \in 1..Len(w.biomes) :
        /\ w.biomes[i][1] = a
        /\ w.biomes[j][1] = b
        /\ Abs(w.biomes[i][2] - w.biomes[j][2]) = 1

Max0(x) == IF x < 0 THEN 0 ELSE x

Running == pc \in {"loop", "done"}

\* C1: every generated layout of a size class small, medium or large uses
\* exactly the positions 0..N-1 (N = 5, 7, 9), each of them once.
C1_PositionContiguity ==
    (world # NoWorld /\ world.size \in Sizes) =>
        /\ PositionsOf(world) = 0..(NumBiomes(world.size) - 1)
        /\ Len(world.biomes) = NumBiomes(world.size)

\* C2: every generated layout holds exactly one of Corruption and Crimson,
\* and it is the one recorded in the evil field.
C2_HazardExclusivity ==
    world # NoWorld =>
        /\ Labels(world) \cap {CORRUPTION, CRIMSON} = {world.evil}
        /\ Cardinality({i \in 1..Len(world.biomes) :
                           world.biomes[i][1] \in {CORRUPTION, CRIMSON}}) = 1

\* C3: for a str or int seed, every generator built for the same (seed, size)
\* draws the same first layout: same pairs, same evil.
C3_Determinism ==
    (fresh /\ req.seed.t \in {"int", "str"}) =>
        /\ world.biomes = first.biomes
        /\ world.evil = first.evil

\* C4: every layout in the accumulator has, for each constraint (a, b), both
\* labels at positions that differ by exactly 1.
C4_SearchCorrectness ==
    Running =>
        \A i \in 1..Len(found) : \A k \in 1..Len(params.adjacent_biomes) :
            NextTo(found[i], params.adjacent_biomes[k][1],
                   params.adjacent_biomes[k][2])

C4_Witness ==
    /\ pc = "done"
    /\ Len(params.adjacent_biomes) = 2
    /\ params.adjacent_biomes[1] # params.adjacent_biomes[2]
    /\ Len(found) >= 1
    /\ attempts > Len(found)

\* C5 as stated: attempts <= max_attempts and len(found) <= num_seeds
\* throughout the loop and at return.
C5_BoundAsStated ==
    Running =>
        /\ attempts <= params.max_attempts
        /\ Len(found) <= params.num_seeds

\* C5 amended: attempts <= max(max_attempts, 0) and
\* len(found) <= max(num_seeds, 0) throughout the loop and at return.
C5_TerminationBound ==
    Running =>
        /\ attempts <= Max0(params.max_attempts)
        /\ Len(found) <= Max0(params.num_seeds)

C5_Witness ==
    /\ pc = "done"
    /\ params.max_attempts > 1
    /\ attempts = params.max_attempts
    /\ Len(found) < params.num_seeds

\* C6 as stated: where the loop stops, len(found) = num_seeds or
\* attempts = max_attempts.
C6_ExitAsStated ==
    pc = "done" =>
        \/ Len(found) = params.num_seeds
        \/ attempts = params.max_attempts

Reached ==
    \/ Len(found) = Max0(params.num_seeds)
    \/ attempts = Max0(params.max_attempts)

\* C6 amended: a started search always stops; where it stops,
\* len(found) = max(num_seeds, 0) or attempts = max(max_attempts, 0); and
\* once either holds no further attempt is made.
C6_Termination ==
    /\ (pc = "loop") ~> (pc = "done")
    /\ [](pc = "done" => Reached)
    /\ [][(pc = "loop" /\ Reached) => attempts' = attempts]_vars

C6_Witness ==
    /\ pc = "done"
    /\ params.num_seeds > 0
    /\ Len(found) = params.num_seeds
    /\ attempts < params.max_attempts
    /\ attempts > Len(found)

\* C7 as stated: with no constraints len(found) = attempts after every
\* iteration, and with num_seeds <= max_attempts the search returns
\* num_seeds results after num_seeds attempts.
C7_EmptyAsStated ==
    (Running /\ params.adjacent_biomes = <<>>) =>
        /\ Len(found) = attempts
        /\ (pc = "done" /\ params.num_seeds <= params.max_attempts) =>
              (Len(found) = params.num_seeds /\ attempts = params.num_seeds)

\* C7 amended: with no constraints len(found) = attempts after every
\* iteration, and with num_seeds <= max_attempts the search returns
\* max(num_seeds, 0) results after max(num_seeds, 0) attempts.
C7_EmptyConstraints ==
    (Running /\ params.adjacent_biomes = <<>>) =>
        /\ Len(found) = attempts
        /\ (pc = "done" /\ params.num_seeds <= params.max_attempts) =>
              /\ Len(found) = Max0(params.num_seeds)
              /\ attempts = Max0(params.num_seeds)

C7_Witness ==
    /\ pc = "done"
    /\ params.adjacent_biomes = <<>>
    /\ params.num_seeds > 1
    /\ params.num_seeds < params.max_attempts
    /\ Len(found) = params.num_seeds
    /\ attempts = params.num_seeds

\* C8: on a generated layout has_adjacent_biomes(a, b) is true exactly when
\* both labels occur and a sits next to b, Ocean included.
C8_AdjacencyMeaning ==
    (answer.asked /\ generator.st = "used") =>
        \A a \in Biome(impl), b \in Biome(impl) :
            (<<a, b>> \in answer.adjacent) <=> NextTo(world, a, b)

\* C9: on any layout has_adjacent_biomes(a, b) = has_adjacent_biomes(b, a).
C9_AdjacencySymmetry ==
    answer.asked =>
        \A a \in Biome(impl), b \in Biome(impl) :
            (<<a, b>> \in answer.adjacent) <=> (<<b, a>> \in answer.adjacent)

C9_Witness ==
    /\ answer.asked
    /\ answer.adjacent # {}
    /\ \E i, j \in 1..Len(world.biomes) :
          i # j /\ world.biomes[i][1] = world.biomes[j][1]

\* C10: when find_seeds returns, the worlds it found are the tail of the
\* finder's found_seeds, which save_results writes one record for each of.
C10_FoundSeedsSaved ==
    (impl = "finder" /\ pc = "done") =>
        /\ Len(found_seeds) >= Len(found)
        /\ SubSeq(found_seeds, Len(found_seeds) - Len(found) + 1,
                  Len(found_seeds)) = found

====
